---- MODULE Spec2Model ----
(***************************************************************************)
(* ArtCollector view layer: Preview (result list + pagination), Feature    *)
(* (record detail) and Searchable (clickable attribute value).             *)
(*                                                                         *)
(* The three state slots searchResults, isLoading and featuredResult are   *)
(* owned by the container and written through setSearchResults,            *)
(* setIsLoading and setFeaturedResult.  Every event-loop task (a click     *)
(* handler up to its await, the continuation of an async function after    *)
(* the awaited fetch settles, a timer callback) is one atomic action.      *)
(***************************************************************************)
EXTENDS Integers, Sequences, FiniteSets, TLC

(***************************************************************************)
(* JavaScript values.                                                      *)
(***************************************************************************)
Null == [tag |-> "null"]

Undefined == [tag |-> "undefined"]

Str(s) == [tag |-> "string", chars |-> s]

Arr(s) == [tag |-> "array", items |-> s]

\* A presence test that only looks for null and undefined (v != null).
Truthy_NotNullish(v) == v.tag # "null" /\ v.tag # "undefined"

\* ToBoolean: null, undefined and the empty string are falsy; objects and
\* arrays (empty ones too) are truthy.
Truthy(v) ==
  CASE v.tag = "null" -> FALSE
    [] v.tag = "undefined" -> FALSE
    [] v.tag = "string" -> v.chars # <<>>
    [] OTHER -> TRUE

UpperChars == <<"A", "B", "C", "D", "E", "F", "G", "H", "I", "J", "K", "L", "M",
                "N", "O", "P", "Q", "R", "S", "T", "U", "V", "W", "X", "Y", "Z">>

LowerChars == <<"a", "b", "c", "d", "e", "f", "g", "h", "i", "j", "k", "l", "m",
                "n", "o", "p", "q", "r", "s", "t", "u", "v", "w", "x", "y", "z">>

LowerChar(c) ==
  IF \E i \in DOMAIN UpperChars : UpperChars[i] = c
    THEN LowerChars[CHOOSE i \in DOMAIN UpperChars : UpperChars[i] = c]
    ELSE c

\* String.prototype.toLowerCase
toLowerCase(v) == Str([i \in DOMAIN v.chars |-> LowerChar(v.chars[i])])

(***************************************************************************)
(* The catalogue the fetch collaborators answer from.                      *)
(***************************************************************************)
Person(name, displayname) ==
  [tag |-> "object", name |-> Str(name), displayname |-> Str(displayname)]

Vase ==
  [tag |-> "object",
   title |-> Str(<<"V", "a", "s", "e">>),
   dated |-> Str(<<"1", "9", "0", "0">>),
   images |-> Arr(<<Str(<<"i", "1">>)>>),
   primaryimageurl |-> Str(<<"i", "1">>),
   description |-> Undefined,
   culture |-> Arr(<<Str(<<"G", "r", "e", "e", "k">>)>>),
   style |-> Str(<<"A", "t", "t", "i", "c">>),
   technique |-> Str(<<"E", "t", "c", "h">>),
   medium |-> Str(<<"O", "i", "l">>),
   dimensions |-> Undefined,
   people |-> Arr(<<Person(<<"M", "o", "n", "e", "t">>,
                           <<"C", ".", "M", "o", "n", "e", "t">>)>>),
   department |-> Str(<<"D">>),
   division |-> Null,
   contact |-> Undefined,
   creditline |-> Str(<<"G", "i", "f", "t">>)]

Bowl ==
  [tag |-> "object",
   title |-> Undefined,
   dated |-> Null,
   images |-> Undefined,
   primaryimageurl |-> Null,
   description |-> Str(<<"b", "o", "w", "l">>),
   culture |-> Arr(<<>>),
   style |-> Undefined,
   technique |-> Undefined,
   medium |-> Null,
   dimensions |-> Str(<<"3", "x", "3">>),
   people |-> Arr(<<>>),
   department |-> Undefined,
   division |-> Str(<<"A", "s", "i", "a">>),
   contact |-> Str(<<"m", "@", "x">>),
   creditline |-> Undefined]

Page1 ==
  [info |-> [prev |-> Null, next |-> Str(<<"p", "2">>)],
   records |-> <<Vase>>]

Page2 ==
  [info |-> [prev |-> Str(<<"p", "1">>), next |-> Undefined],
   records |-> <<Bowl, Vase>>]

\* {info: {}, records: []}
EmptyPage ==
  [info |-> [prev |-> Undefined, next |-> Undefined],
   records |-> <<>>]

ResultSets == {Page1, Page2, EmptyPage}

\* Number of activations (clicks on a link or a pagination button) explored.
MaxTasks == 2

(***************************************************************************)
(* Searchable: what one instance shows and what its click handler passes   *)
(* to fetchQueryResultsFromTermAndValue.                                   *)
(***************************************************************************)
SearchableText(searchTerm, searchValue) == searchValue

SearchableQuery(searchTerm, searchValue) == <<searchTerm, searchValue>>

(***************************************************************************)
(* Feature: the searchValue prop handed to each Searchable.                *)
(***************************************************************************)
CultureSearchValue(item) == item

\* The technique passed through without lower-casing.
TechniqueSearchValue_AsIs(technique) == technique

TechniqueSearchValue(technique) == toLowerCase(technique)

MediumSearchValue(medium) == medium

PersonSearchValue(person) == person.name

Link(searchTerm, searchValue, key) ==
  [searchTerm |-> searchTerm, searchValue |-> searchValue, key |-> key]

TextRow(field, label, value) ==
  <<[field |-> field, label |-> label, kind |-> "text", text |-> value, links |-> <<>>]>>

ImageRow(field, src) ==
  <<[field |-> field, label |-> "", kind |-> "img", text |-> src, links |-> <<>>]>>

LinkRow(field, label, links) ==
  <<[field |-> field, label |-> label, kind |-> "links", text |-> Undefined, links |-> links]>>

When(cond, rows) == IF cond THEN rows ELSE <<>>

\* The <header> of the object-feature: h3 title, h4 dated.
FeatureHeader(featuredResult) ==
  IF ~Truthy(featuredResult) THEN <<>>
  ELSE When(Truthy(featuredResult.title), <<[el |-> "h3", text |-> featuredResult.title]>>)
       \o When(Truthy(featuredResult.dated), <<[el |-> "h4", text |-> featuredResult.dated]>>)

\* The label/content pairs of <section className="facts">, in document order.
FeatureRows(featuredResult) ==
  IF ~Truthy(featuredResult) THEN <<>>
  ELSE LET r == featuredResult IN
       When(Truthy(r.title), TextRow("title", "Title:", r.title))
    \o When(Truthy(r.dated), TextRow("dated", "Dated:", r.dated))
    \o When(Truthy(r.primaryimageurl), ImageRow("primaryimageurl", r.primaryimageurl))
    \o When(Truthy(r.description), TextRow("description", "Description:", r.description))
    \o When(r.culture.tag = "array" /\ Len(r.culture.items) > 0,
            LinkRow("culture", "Culture:",
                    [i \in DOMAIN r.culture.items |->
                       Link("culture", CultureSearchValue(r.culture.items[i]), i)]))
    \o When(Truthy(r.style), TextRow("style", "Style:", r.style))
    \o When(Truthy(r.technique),
            LinkRow("technique", "Technique:",
                    <<Link("technique", TechniqueSearchValue(r.technique), 0)>>))
    \o When(Truthy(r.medium),
            LinkRow("medium", "Medium:",
                    <<Link("medium", MediumSearchValue(r.medium), 0)>>))
    \o When(Truthy(r.dimensions), TextRow("dimensions", "Dimensions:", r.dimensions))
    \o When(Truthy(r.people) /\ Len(r.people.items) > 0,
            LinkRow("people", "People:",
                    [i \in DOMAIN r.people.items |->
                       Link("people", PersonSearchValue(r.people.items[i]), i)]))
    \o When(Truthy(r.department), TextRow("department", "Department:", r.department))
    \o When(Truthy(r.division), TextRow("division", "Division:", r.division))
    \o When(Truthy(r.contact), TextRow("contact", "Contact:", r.contact))
    \o When(Truthy(r.creditline), TextRow("creditline", "Credit Line:", r.creditline))

\* Every Searchable instance the Feature currently renders.
FeatureLinks(featuredResult) ==
  LET rows == FeatureRows(featuredResult) IN
  UNION {{rows[i].links[j] : j \in DOMAIN rows[i].links} : i \in DOMAIN rows}

(***************************************************************************)
(* Preview: the pagination buttons.                                        *)
(***************************************************************************)
\* The "previous" button disabled on the wrong cursor.
PreviousDisabled_WrongCursor(searchResults) == ~Truthy(searchResults.info.next)

PreviousDisabled(searchResults) == ~Truthy(searchResults.info.prev)

NextDisabled(searchResults) == ~Truthy(searchResults.info.next)

PreviousPageUrl(searchResults) == searchResults.info.prev

NextPageUrl(searchResults) == searchResults.info.next

\* PreviewEntry without the || 'MISSING INFO' fallback.
PreviewEntry_NoFallback(record, index) ==
  [key |-> index,
   img |-> IF Truthy(record.primaryimageurl)
             THEN <<[src |-> record.primaryimageurl, alt |-> record.description]>>
             ELSE <<>>,
   h3 |-> record.title]

\* One object-preview entry: the image only when primaryimageurl is truthy,
\* the title or the 'MISSING INFO' label.
PreviewEntry(record, index) ==
  [key |-> index,
   img |-> IF Truthy(record.primaryimageurl)
             THEN <<[src |-> record.primaryimageurl, alt |-> record.description]>>
             ELSE <<>>,
   h3 |-> IF Truthy(record.title)
            THEN record.title
            ELSE Str(<<"M", "I", "S", "S", "I", "N", "G", " ", "I", "N", "F", "O">>)]

\* What Preview returns for the searchResults prop.
Preview(searchResults) ==
  [previous |-> [disabled |-> PreviousDisabled(searchResults)],
   next |-> [disabled |-> NextDisabled(searchResults)],
   results |-> [index \in DOMAIN searchResults.records |->
                  PreviewEntry(searchResults.records[index], index)]]

\* What Feature returns for the featuredResult prop: the empty <main> when
\* it is falsy, else the header and the facts.
Feature(featuredResult) ==
  [empty |-> ~Truthy(featuredResult),
   header |-> FeatureHeader(featuredResult),
   facts |-> FeatureRows(featuredResult)]

\* The committed output of both components.
Render(searchResults, featuredResult) ==
  [preview |-> Preview(searchResults), feature |-> Feature(featuredResult)]

(***************************************************************************)
(* State.                                                                  *)
(***************************************************************************)
VARIABLES
  searchResults,   \* QueryResultSet slot
  isLoading,       \* LoadingFlag slot
  featuredResult,  \* SelectedRecord slot
  pending,         \* live activations of handleClick / fetchPage: the
                   \* closure of each async call that has not finished
  timers,          \* pending setTimeout callbacks, in firing order
  history,         \* per activation, what it has done so far (observer)
  lastFlagWriter,  \* activation that made the latest setIsLoading call
  lastResolved,    \* the fetch that resolved most recently: its activation
                   \* and the value it returned
  view             \* what Preview and Feature rendered last

vars == <<searchResults, isLoading, featuredResult, pending, timers,
          history, lastFlagWriter, lastResolved, view>>

Activations == DOMAIN history

Unfinished(t) == t \in DOMAIN pending

InFlight(t) == t \in DOMAIN pending /\ pending[t].pc = "await"

Init ==
  /\ searchResults \in ResultSets
  /\ isLoading = FALSE
  /\ featuredResult = Null
  /\ pending = <<>>
  /\ timers = <<>>
  /\ history = <<>>
  /\ lastFlagWriter = 0
  /\ lastResolved = [t |-> 0, results |-> Undefined]
  /\ view = Render(searchResults, featuredResult)

\* React renders both components again after the state setters of a step.
Rerender == view' = Render(searchResults', featuredResult')

\* The closure of a suspended async call: which collaborator was called with
\* which arguments, and what the triggering element displayed.
Closure(kind, control, fn, args, text) ==
  [kind |-> kind, control |-> control, fn |-> fn, args |-> args, text |-> text,
   pc |-> "await"]

\* The synchronous prefix of a handler in program order, fetch call first.
StartLog_FetchFirst(prevented) ==
  <<"fetch">> \o (IF prevented THEN <<"preventDefault">> ELSE <<>>) \o <<"isLoading:true">>

\* The synchronous prefix of a handler in program order: preventDefault
\* (handleClick only), setIsLoading(true), the fetch call.
StartLog(prevented) ==
  (IF prevented THEN <<"preventDefault">> ELSE <<>>) \o <<"isLoading:true", "fetch">>

\* A new activation: the synchronous prefix of the handler has run,
\* setIsLoading(true) is written and the fetch is awaited.
Start(closure, prevented) ==
  LET t == Len(history) + 1 IN
  /\ t <= MaxTasks
  /\ isLoading' = TRUE
  /\ pending' = (t :> closure) @@ pending
  /\ history' = [u \in Activations |->
                   IF Unfinished(u) THEN [history[u] EXCEPT !.overlapped = TRUE]
                                    ELSE history[u]]
                \o <<[kind |-> closure.kind,
                      prevented |-> prevented,
                      settled |-> "pending",
                      log |-> StartLog(prevented),
                      errors |-> 0,
                      promise |-> "pending",
                      overlapped |-> pending # <<>>]>>
  /\ lastFlagWriter' = t
  /\ UNCHANGED <<searchResults, featuredResult, timers, lastResolved>>

Drop(t) == [u \in DOMAIN pending \ {t} |-> pending[u]]

(***************************************************************************)
(* Searchable.handleClick                                                  *)
(***************************************************************************)
\* handleClick without the event.preventDefault() call.
handleClick_NoPreventDefault(link) ==
  Start(Closure("searchable",
                [type |-> "link", field |-> link.searchTerm, key |-> link.key],
                "fetchQueryResultsFromTermAndValue",
                SearchableQuery(link.searchTerm, link.searchValue),
                SearchableText(link.searchTerm, link.searchValue)),
        FALSE)

\* Click on the anchor: preventDefault, setIsLoading(true), call the fetch
\* and suspend at the await.
handleClick(link) ==
  Start(Closure("searchable",
                [type |-> "link", field |-> link.searchTerm, key |-> link.key],
                "fetchQueryResultsFromTermAndValue",
                SearchableQuery(link.searchTerm, link.searchValue),
                SearchableText(link.searchTerm, link.searchValue)),
        TRUE)

\* handleClickResolved with the finally block left out: no timer is
\* scheduled, so nothing clears the flag for this activation.
handleClickResolved_NoTimer(t, results) ==
  /\ InFlight(t)
  /\ pending[t].kind = "searchable"
  /\ searchResults' = results
  /\ pending' = Drop(t)
  /\ history' = [history EXCEPT ![t] =
       [@ EXCEPT !.settled = "resolved",
                 !.log = Append(@, "searchResults"),
                 !.promise = "fulfilled"]]
  /\ lastResolved' = [t |-> t, results |-> results]
  /\ UNCHANGED <<isLoading, featuredResult, timers, lastFlagWriter>>

\* handleClickResolved that also resets the selection when the result set
\* is replaced.
handleClickResolved_ClearsFeature(t, results) ==
  /\ InFlight(t)
  /\ pending[t].kind = "searchable"
  /\ searchResults' = results
  /\ featuredResult' = Null
  /\ timers' = Append(timers, t)
  /\ pending' = [pending EXCEPT ![t].pc = "timer"]
  /\ history' = [history EXCEPT ![t] =
       [@ EXCEPT !.settled = "resolved",
                 !.log = @ \o <<"searchResults", "setTimeout">>,
                 !.promise = "fulfilled"]]
  /\ lastResolved' = [t |-> t, results |-> results]
  /\ UNCHANGED <<isLoading, lastFlagWriter>>

\* try: the awaited fetch resolved, setSearchResults(results);
\* finally: schedule the timer.
handleClickResolved(t, results) ==
  /\ InFlight(t)
  /\ pending[t].kind = "searchable"
  /\ searchResults' = results
  /\ timers' = Append(timers, t)
  /\ pending' = [pending EXCEPT ![t].pc = "timer"]
  /\ history' = [history EXCEPT ![t] =
       [@ EXCEPT !.settled = "resolved",
                 !.log = @ \o <<"searchResults", "setTimeout">>,
                 !.promise = "fulfilled"]]
  /\ lastResolved' = [t |-> t, results |-> results]
  /\ UNCHANGED <<isLoading, featuredResult, lastFlagWriter>>

\* handleClickRejected whose catch block calls the fetch once more before
\* giving up.
handleClickRejected_Retry(t) ==
  /\ InFlight(t)
  /\ pending[t].kind = "searchable"
  /\ IF history[t].errors = 0
       THEN /\ history' = [history EXCEPT ![t] =
                 [@ EXCEPT !.errors = @ + 1,
                           !.log = @ \o <<"console.error", "fetch">>]]
            /\ UNCHANGED <<timers, pending>>
       ELSE /\ timers' = Append(timers, t)
            /\ pending' = [pending EXCEPT ![t].pc = "timer"]
            /\ history' = [history EXCEPT ![t] =
                 [@ EXCEPT !.settled = "rejected",
                           !.log = @ \o <<"console.error", "setTimeout">>,
                           !.promise = "fulfilled"]]
  /\ UNCHANGED <<searchResults, isLoading, featuredResult, lastFlagWriter, lastResolved>>

\* handleClickRejected with the catch block left out: nothing is logged and
\* the error leaves the handler once the finally block has run.
handleClickRejected_NoCatch(t) ==
  /\ InFlight(t)
  /\ pending[t].kind = "searchable"
  /\ timers' = Append(timers, t)
  /\ pending' = [pending EXCEPT ![t].pc = "timer"]
  /\ history' = [history EXCEPT ![t] =
       [@ EXCEPT !.settled = "rejected",
                 !.log = Append(@, "setTimeout"),
                 !.promise = "rejected"]]
  /\ UNCHANGED <<searchResults, isLoading, featuredResult, lastFlagWriter, lastResolved>>

\* catch: the awaited fetch rejected, console.error(error);
\* finally: schedule the timer.
handleClickRejected(t) ==
  /\ InFlight(t)
  /\ pending[t].kind = "searchable"
  /\ timers' = Append(timers, t)
  /\ pending' = [pending EXCEPT ![t].pc = "timer"]
  /\ history' = [history EXCEPT ![t] =
       [@ EXCEPT !.settled = "rejected",
                 !.errors = @ + 1,
                 !.log = @ \o <<"console.error", "setTimeout">>,
                 !.promise = "fulfilled"]]
  /\ UNCHANGED <<searchResults, isLoading, featuredResult, lastFlagWriter, lastResolved>>

\* timerCallback with an empty callback body: the flag is left as it is.
timerCallback_NoWrite ==
  /\ timers # <<>>
  /\ timers' = Tail(timers)
  /\ pending' = Drop(Head(timers))
  /\ UNCHANGED <<searchResults, isLoading, featuredResult, history,
                 lastFlagWriter, lastResolved>>

\* The setTimeout callback: setIsLoading(false).  Timers of equal delay fire
\* in the order they were scheduled.
timerCallback ==
  /\ timers # <<>>
  /\ LET t == Head(timers) IN
       /\ isLoading' = FALSE
       /\ timers' = Tail(timers)
       /\ pending' = Drop(t)
       /\ history' = [history EXCEPT ![t].log = Append(@, "isLoading:false")]
       /\ lastFlagWriter' = t
  /\ UNCHANGED <<searchResults, featuredResult, lastResolved>>

(***************************************************************************)
(* Preview.fetchPage                                                       *)
(***************************************************************************)
\* setIsLoading(true), call fetchQueryResultsFromURL and suspend at the await.
fetchPage(pageUrl, control) ==
  Start(Closure("page", [type |-> control, field |-> "", key |-> 0],
                "fetchQueryResultsFromURL", <<pageUrl>>, Undefined),
        FALSE)

\* onClick of the "previous" button; a disabled button dispatches no click.
previousClick ==
  /\ ~PreviousDisabled(searchResults)
  /\ fetchPage(PreviousPageUrl(searchResults), "previous")

\* onClick of the "next" button.
nextClick ==
  /\ ~NextDisabled(searchResults)
  /\ fetchPage(NextPageUrl(searchResults), "next")

\* fetchPageResolved that appends the fetched records to the ones shown
\* instead of replacing the result set.
fetchPageResolved_Merge(t, results) ==
  /\ InFlight(t)
  /\ pending[t].kind = "page"
  /\ searchResults' = [info |-> results.info,
                       records |-> searchResults.records \o results.records]
  /\ isLoading' = FALSE
  /\ pending' = Drop(t)
  /\ history' = [history EXCEPT ![t] =
       [@ EXCEPT !.settled = "resolved",
                 !.log = @ \o <<"searchResults", "isLoading:false">>,
                 !.promise = "fulfilled"]]
  /\ lastResolved' = [t |-> t, results |-> results]
  /\ lastFlagWriter' = t
  /\ UNCHANGED <<featuredResult, timers>>

\* fetchPageResolved that also features the first record of the new page.
fetchPageResolved_SelectsFirst(t, results) ==
  /\ InFlight(t)
  /\ pending[t].kind = "page"
  /\ searchResults' = results
  /\ isLoading' = FALSE
  /\ featuredResult' = IF results.records # <<>> THEN results.records[1]
                                                 ELSE featuredResult
  /\ pending' = Drop(t)
  /\ history' = [history EXCEPT ![t] =
       [@ EXCEPT !.settled = "resolved",
                 !.log = @ \o <<"searchResults", "isLoading:false">>,
                 !.promise = "fulfilled"]]
  /\ lastResolved' = [t |-> t, results |-> results]
  /\ lastFlagWriter' = t
  /\ UNCHANGED timers

\* try: the awaited fetch resolved, setSearchResults(results);
\* finally: setIsLoading(false).
fetchPageResolved(t, results) ==
  /\ InFlight(t)
  /\ pending[t].kind = "page"
  /\ searchResults' = results
  /\ isLoading' = FALSE
  /\ pending' = Drop(t)
  /\ history' = [history EXCEPT ![t] =
       [@ EXCEPT !.settled = "resolved",
                 !.log = @ \o <<"searchResults", "isLoading:false">>,
                 !.promise = "fulfilled"]]
  /\ lastResolved' = [t |-> t, results |-> results]
  /\ lastFlagWriter' = t
  /\ UNCHANGED <<featuredResult, timers>>

\* fetchPageRejected whose catch block empties the result list.
fetchPageRejected_ClearsResults(t) ==
  /\ InFlight(t)
  /\ pending[t].kind = "page"
  /\ searchResults' = EmptyPage
  /\ isLoading' = FALSE
  /\ pending' = Drop(t)
  /\ history' = [history EXCEPT ![t] =
       [@ EXCEPT !.settled = "rejected",
                 !.errors = @ + 1,
                 !.log = @ \o <<"console.error", "isLoading:false">>,
                 !.promise = "fulfilled"]]
  /\ lastFlagWriter' = t
  /\ UNCHANGED <<featuredResult, timers, lastResolved>>

\* fetchPageRejected with the finally block left out: the flag is never cleared.
fetchPageRejected_NoFinally(t) ==
  /\ InFlight(t)
  /\ pending[t].kind = "page"
  /\ pending' = Drop(t)
  /\ history' = [history EXCEPT ![t] =
       [@ EXCEPT !.settled = "rejected",
                 !.errors = @ + 1,
                 !.log = Append(@, "console.error"),
                 !.promise = "fulfilled"]]
  /\ UNCHANGED <<searchResults, isLoading, featuredResult, timers,
                 lastFlagWriter, lastResolved>>

\* catch: the awaited fetch rejected, console.error(error);
\* finally: setIsLoading(false).
fetchPageRejected(t) ==
  /\ InFlight(t)
  /\ pending[t].kind = "page"
  /\ isLoading' = FALSE
  /\ pending' = Drop(t)
  /\ history' = [history EXCEPT ![t] =
       [@ EXCEPT !.settled = "rejected",
                 !.errors = @ + 1,
                 !.log = @ \o <<"console.error", "isLoading:false">>,
                 !.promise = "fulfilled"]]
  /\ lastFlagWriter' = t
  /\ UNCHANGED <<searchResults, featuredResult, timers, lastResolved>>

\* objectPreviewClick that treats the selection as a query and raises the flag.
objectPreviewClick_Loading(index) ==
  /\ index \in DOMAIN searchResults.records
  /\ featuredResult' = searchResults.records[index]
  /\ isLoading' = TRUE
  /\ UNCHANGED <<searchResults, pending, timers, history,
                 lastFlagWriter, lastResolved>>

\* onClick of one object-preview entry: preventDefault, setFeaturedResult(record).
objectPreviewClick(index) ==
  /\ index \in DOMAIN searchResults.records
  /\ featuredResult' = searchResults.records[index]
  /\ UNCHANGED <<searchResults, isLoading, pending, timers, history,
                 lastFlagWriter, lastResolved>>

(***************************************************************************)
(* Specifications.                                                         *)
(***************************************************************************)
LinkClick ==
  /\ \E link \in FeatureLinks(featuredResult) : handleClick(link)
  /\ Rerender

LinkResolved ==
  /\ \E t \in DOMAIN pending, results \in ResultSets : handleClickResolved(t, results)
  /\ Rerender

LinkRejected ==
  /\ \E t \in DOMAIN pending : handleClickRejected(t)
  /\ Rerender

TimerFires == timerCallback /\ Rerender

PreviousButton == previousClick /\ Rerender

NextButton == nextClick /\ Rerender

PageResolved ==
  /\ \E t \in DOMAIN pending, results \in ResultSets : fetchPageResolved(t, results)
  /\ Rerender

PageRejected ==
  /\ \E t \in DOMAIN pending : fetchPageRejected(t)
  /\ Rerender

SelectRecord ==
  /\ \E index \in DOMAIN searchResults.records : objectPreviewClick(index)
  /\ Rerender

Settle == LinkResolved \/ LinkRejected \/ PageResolved \/ PageRejected

Next ==
  \/ LinkClick
  \/ LinkResolved
  \/ LinkRejected
  \/ TimerFires
  \/ PreviousButton
  \/ NextButton
  \/ PageResolved
  \/ PageRejected
  \/ SelectRecord

Spec == Init /\ [][Next]_vars

\* Every started fetch settles and every scheduled timer callback runs.
LiveSpec == Spec /\ WF_vars(Settle) /\ WF_vars(TimerFires)

TypeOK ==
  /\ searchResults \in ResultSets
  /\ isLoading \in BOOLEAN
  /\ Len(history) <= MaxTasks
  /\ DOMAIN pending \subseteq Activations
  /\ \A i \in DOMAIN timers : Unfinished(timers[i]) /\ pending[timers[i]].pc = "timer"
  /\ \A t \in DOMAIN pending : pending[t].pc = "timer" => \E i \in DOMAIN timers : timers[i] = t

(***************************************************************************)
(* Properties.                                                             *)
(***************************************************************************)
Finished(t) == t \in Activations /\ ~Unfinished(t)

Resolved(t) == history[t].settled = "resolved"

Rejected(t) == history[t].settled = "rejected"

\* The writes one activation has to have made by the time it is in the
\* given position.
Writes(t) ==
  SelectSeq(history[t].log,
            LAMBDA e : e \in {"isLoading:true", "searchResults", "isLoading:false"})

WritesSoFar(t) ==
  <<"isLoading:true">>
  \o (IF Resolved(t) THEN <<"searchResults">> ELSE <<>>)
  \o (IF Finished(t) THEN <<"isLoading:false">> ELSE <<>>)

\* C1: one activation of a link or of an enabled pagination button writes
\* LoadingFlag exactly twice, true then false, and writes QueryResultSet
\* once in between when its fetch resolved and not at all when it rejected;
\* while an activation that no other one overlaps is unfinished the flag
\* reads true, and it reads false when that activation has made the latest
\* flag write and is finished.
C1_TrueThenFalse ==
  \A t \in Activations :
    /\ Writes(t) = WritesSoFar(t)
    /\ (Unfinished(t) /\ ~history[t].overlapped) => isLoading
    /\ (Finished(t) /\ lastFlagWriter = t) => ~isLoading

C1_Witness ==
  /\ Len(history) = 2
  /\ \A t \in Activations : Finished(t) /\ ~history[t].overlapped
  /\ history[1].kind = "searchable" /\ Resolved(1)
  /\ history[2].kind = "page" /\ Rejected(2)

\* C2 as stated: LoadingFlag is true exactly when some fetch is in flight.
C2_TrueIffInFlight == isLoading <=> (\E t \in Activations : InFlight(t))

\* C2 as amended: LoadingFlag is true only while some activation is
\* unfinished (its fetch is in flight or its deferred clear is still
\* scheduled), and it is true whenever a fetch is in flight whose activation
\* no other activation overlaps.
C2_TrueOnlyWhileUnfinished ==
  /\ isLoading => (\E t \in Activations : Unfinished(t))
  /\ \A t \in Activations : (InFlight(t) /\ ~history[t].overlapped) => isLoading

C2_Witness ==
  /\ isLoading
  /\ pending # <<>>
  /\ \A t \in DOMAIN pending : pending[t].pc = "timer"

\* C3: an activation whose fetch rejects never writes QueryResultSet (the
\* step that handles the rejection and the deferred clear of that
\* activation both leave it as it was), logs exactly one error, where a
\* resolved fetch logs none, and the handler's promise is fulfilled, not
\* rejected.
C3_RejectionState ==
  \A t \in Activations :
    /\ history[t].settled = "pending" =>
         history[t].errors = 0 /\ history[t].promise = "pending"
    /\ Resolved(t) => history[t].errors = 0 /\ history[t].promise = "fulfilled"
    /\ Rejected(t) =>
         /\ history[t].errors = 1
         /\ history[t].promise = "fulfilled"
         /\ \A i \in DOMAIN history[t].log : history[t].log[i] # "searchResults"

C3_RejectionStep ==
  \A t \in Activations :
    (Rejected(t)' /\ history[t]' # history[t]) => searchResults' = searchResults

C3_FailureSwallowed == []C3_RejectionState /\ [][C3_RejectionStep]_vars

C3_Witness ==
  \E t \in Activations :
    /\ Finished(t)
    /\ Rejected(t)
    /\ history[t].kind = "searchable"
    /\ history[t].errors = 1
    /\ ~history[t].overlapped

FlagCleared(t) ==
  /\ t \in Activations
  /\ history[t].log[Len(history[t].log)] = "isLoading:false"

\* C4: when every fetch settles and every timer callback runs, each
\* activation (it has written LoadingFlag = true) goes on to write
\* LoadingFlag = false, whether its fetch resolves or rejects and however
\* activations overlap; the flag is false whenever no activation is
\* unfinished, and from some point on it is false for good.
C4_FlagEventuallyCleared ==
  /\ \A t \in 1..MaxTasks : (t \in Activations) ~> FlagCleared(t)
  /\ [](pending = <<>> => ~isLoading)
  /\ <>[](~isLoading)

C4_Witness ==
  /\ Len(history) = 2
  /\ \A t \in Activations : FlagCleared(t) /\ history[t].overlapped
  /\ Resolved(1) /\ history[1].kind = "searchable"
  /\ Rejected(2)
  /\ ~isLoading

\* C5: when activations overlapped and all their fetches resolved, then once
\* all of them are finished QueryResultSet is the value returned by the
\* fetch that resolved last, and the latest LoadingFlag write was made by
\* the activation whose fetch resolved last.
C5_LastResolvedWinsBoth ==
  (/\ Len(history) >= 2
   /\ pending = <<>>
   /\ \A t \in Activations : Resolved(t) /\ history[t].overlapped)
  => /\ searchResults = lastResolved.results
     /\ lastFlagWriter = lastResolved.t

\* C6: a click on a result entry sets SelectedRecord to the record of that
\* entry and nothing else: no activation is started, no closure changes,
\* LoadingFlag and QueryResultSet keep their values.
C6_SelectStep ==
  \A index \in DOMAIN searchResults.records :
    objectPreviewClick(index) =>
      /\ featuredResult' = searchResults.records[index]
      /\ UNCHANGED <<searchResults, isLoading, pending, timers, history>>

C6_SelectOnlySelects == [][C6_SelectStep]_vars

\* Bowl is only listed on Page2 and "next" is only enabled on Page1: the
\* selection was made while activation 1 was awaiting its fetch.
C6_Witness ==
  /\ featuredResult = Bowl
  /\ InFlight(1)
  /\ pending[1].control.type = "next"
  /\ isLoading

\* C7: no step of a query (activation, settlement of its fetch, deferred
\* clear) changes SelectedRecord, so SelectedRecord can be a record that
\* the current QueryResultSet does not list.
C7_QueryStep == history' # history => featuredResult' = featuredResult

C7_QueryKeepsSelection == [][C7_QueryStep]_vars

C7_Witness ==
  /\ Truthy(featuredResult)
  /\ \A i \in DOMAIN searchResults.records : searchResults.records[i] # featuredResult
  /\ lastResolved.t # 0

Absent(v) == v = Null \/ v = Undefined

\* C8: "previous" is disabled exactly when info.prev is absent or null and
\* "next" exactly when info.next is; an activation of fetchPage happens only
\* from an enabled button and passes the cursor that button shows, so the
\* URL fetch is never called with an absent page URL.
C8_ButtonsState ==
  /\ PreviousDisabled(searchResults) <=> Absent(searchResults.info.prev)
  /\ NextDisabled(searchResults) <=> Absent(searchResults.info.next)
  /\ \A t \in DOMAIN pending :
       pending[t].fn = "fetchQueryResultsFromURL" =>
         Len(pending[t].args) = 1 /\ ~Absent(pending[t].args[1])

C8_ButtonsStep ==
  LET t == Len(history) + 1 IN
  (Len(history') = t /\ history'[t].kind = "page") =>
    /\ pending'[t].fn = "fetchQueryResultsFromURL"
    /\ pending'[t].control.type = "previous" =>
         /\ ~Absent(searchResults.info.prev)
         /\ pending'[t].args = <<searchResults.info.prev>>
    /\ pending'[t].control.type = "next" =>
         /\ ~Absent(searchResults.info.next)
         /\ pending'[t].args = <<searchResults.info.next>>

C8_PaginationGuard == []C8_ButtonsState /\ [][C8_ButtonsStep]_vars

C8_Witness ==
  \E t \in DOMAIN pending :
    /\ InFlight(t)
    /\ pending[t].control.type = "previous"
    /\ PreviousDisabled(searchResults)
    /\ ~NextDisabled(searchResults)

PeopleRows(record) ==
  SelectSeq(FeatureRows(record), LAMBDA row : row.field = "people")

\* C9: for a selected record with a non-empty people list the detail view
\* renders one link per entry, in order, with field "people", and each link
\* shows and passes to the term+value fetch the displayname of its entry.
C9_PeopleByDisplayName ==
  (Truthy(featuredResult) /\ Truthy(featuredResult.people)
     /\ Len(featuredResult.people.items) > 0)
  => LET rows == PeopleRows(featuredResult)
         people == featuredResult.people.items
     IN /\ Len(rows) = 1
        /\ Len(rows[1].links) = Len(people)
        /\ \A i \in DOMAIN people :
             LET link == rows[1].links[i] IN
             /\ link.searchTerm = "people"
             /\ SearchableText(link.searchTerm, link.searchValue) = people[i].displayname
             /\ SearchableQuery(link.searchTerm, link.searchValue)
                  = <<"people", people[i].displayname>>

RowsOf(facts, field) == SelectSeq(facts, LAMBDA row : row.field = field)

\* C11: for a selected record with a medium, the medium link shows the
\* record's medium with its case unchanged and passes the lower-cased medium
\* to the term+value fetch.
C11_MediumLowerCased ==
  (Truthy(featuredResult) /\ Truthy(featuredResult.medium))
  => LET rows == RowsOf(view.feature.facts, "medium") IN
     /\ Len(rows) = 1
     /\ Len(rows[1].links) = 1
     /\ LET link == rows[1].links[1] IN
        /\ link.searchTerm = "medium"
        /\ SearchableText(link.searchTerm, link.searchValue) = featuredResult.medium
        /\ SearchableQuery(link.searchTerm, link.searchValue)
             = <<"medium", toLowerCase(featuredResult.medium)>>

(***************************************************************************)
(* Feature on its own: one mount of the component for each record of a     *)
(* family in which every field is present or not independently.            *)
(***************************************************************************)
NotRendered == [tag |-> "unrendered"]

TextValues == {Undefined, Str(<<"x">>)}

FeatureInputs ==
  [tag : {"object"},
   title : {Undefined, Str(<<>>), Str(<<"T">>)},
   dated : {Null, Str(<<"1", "9">>)},
   images : {Undefined},
   primaryimageurl : TextValues,
   description : TextValues,
   culture : {Undefined, Arr(<<>>), Arr(<<Str(<<"G">>), Str(<<"R">>)>>)},
   style : TextValues,
   technique : {Undefined, Str(<<"E", "t">>)},
   medium : {Undefined, Str(<<"O", "l">>)},
   dimensions : TextValues,
   people : {Undefined, Arr(<<>>), Arr(<<Person(<<"n">>, <<"D">>)>>)},
   department : TextValues,
   division : TextValues,
   contact : TextValues,
   creditline : TextValues]

FeatureInit ==
  /\ featuredResult \in FeatureInputs \cup {Null, Undefined}
  /\ searchResults = EmptyPage
  /\ isLoading = FALSE
  /\ pending = <<>>
  /\ timers = <<>>
  /\ history = <<>>
  /\ lastFlagWriter = 0
  /\ lastResolved = [t |-> 0, results |-> Undefined]
  /\ view = [preview |-> Preview(searchResults), feature |-> NotRendered]

\* Feature is called with the featuredResult prop and its output committed.
FeatureMount ==
  /\ view.feature = NotRendered
  /\ view' = [view EXCEPT !.feature = Feature(featuredResult)]
  /\ UNCHANGED <<searchResults, isLoading, featuredResult, pending, timers,
                 history, lastFlagWriter, lastResolved>>

FeatureNext == FeatureMount

FeatureSpec == FeatureInit /\ [][FeatureNext]_vars

FactOrder ==
  <<"title", "dated", "primaryimageurl", "description", "culture", "style",
    "technique", "medium", "dimensions", "people", "department", "division",
    "contact", "creditline">>

\* A field counts as present when it holds a value: not null, not undefined,
\* not the empty string; a list field when it holds a non-empty list.
HasValue(v) == ~Absent(v) /\ v # Str(<<>>)

PresentField(record, field) ==
  IF field \in {"culture", "people"}
    THEN record[field].tag = "array" /\ Len(record[field].items) > 0
    ELSE HasValue(record[field])

\* C12: the fact rows Feature renders are the fields of the fixed order
\* title, dated, image, description, culture, style, technique, medium,
\* dimensions, people, department, division, contact, creditline that are
\* present in the record, in that order, each once; a text or image row
\* carries the value of its field; with no record there is no header and
\* no row.
C12_RowsInFixedOrder ==
  view.feature # NotRendered =>
    IF Absent(featuredResult)
      THEN /\ view.feature.empty
           /\ view.feature.header = <<>>
           /\ view.feature.facts = <<>>
      ELSE LET facts == view.feature.facts IN
           /\ ~view.feature.empty
           /\ [i \in DOMAIN facts |-> facts[i].field]
                = SelectSeq(FactOrder, LAMBDA f : PresentField(featuredResult, f))
           /\ \A i \in DOMAIN facts :
                facts[i].kind \in {"text", "img"} =>
                  facts[i].text = featuredResult[facts[i].field]

C12_Witness ==
  /\ view.feature # NotRendered
  /\ ~Absent(featuredResult)
  /\ featuredResult.title = Str(<<>>)
  /\ featuredResult.culture = Arr(<<>>)
  /\ Len(view.feature.facts) = 12

(***************************************************************************)
(* Preview on its own: one mount of the component for each result set of   *)
(* a family, then possibly a new searchResults prop.                       *)
(***************************************************************************)
\* Longest records list of the family.
MaxRecords == 2

PreviewRecords ==
  {[Bowl EXCEPT !.title = title, !.primaryimageurl = url] :
     title \in {Undefined, Str(<<>>), Str(<<"V">>)},
     url \in {Null, Str(<<>>), Str(<<"i">>)}}

PreviewInputs ==
  [info : [prev : {Null, Str(<<"p">>)}, next : {Undefined, Str(<<"n">>)}],
   records : UNION {[1..n -> PreviewRecords] : n \in 0..MaxRecords}]

PreviewInit ==
  /\ searchResults \in PreviewInputs
  /\ featuredResult = Null
  /\ isLoading = FALSE
  /\ pending = <<>>
  /\ timers = <<>>
  /\ history = <<>>
  /\ lastFlagWriter = 0
  /\ lastResolved = [t |-> 0, results |-> Undefined]
  /\ view = [preview |-> NotRendered, feature |-> Feature(featuredResult)]

\* Preview is called with the searchResults prop and its output committed.
PreviewMount ==
  /\ view.preview = NotRendered
  /\ view' = [view EXCEPT !.preview = Preview(searchResults)]
  /\ UNCHANGED <<searchResults, isLoading, featuredResult, pending, timers,
                 history, lastFlagWriter, lastResolved>>

\* setSearchResults(results) with a value a fetch returned: Preview is
\* called again with the new prop.
PreviewUpdate(results) ==
  /\ view.preview # NotRendered
  /\ searchResults' = results
  /\ view' = [view EXCEPT !.preview = Preview(results)]
  /\ UNCHANGED <<isLoading, featuredResult, pending, timers,
                 history, lastFlagWriter, lastResolved>>

PreviewUpdates == \E results \in ResultSets : PreviewUpdate(results)

PreviewNext == PreviewMount \/ PreviewUpdates

PreviewSpec == PreviewInit /\ [][PreviewNext]_vars

MissingInfo == Str(<<"M", "I", "S", "S", "I", "N", "G", " ", "I", "N", "F", "O">>)

\* C13: what Preview has rendered lists one entry per record of the current
\* QueryResultSet, in the order of the records (none for an empty list);
\* an entry has an image exactly when its record has a primaryimageurl, and
\* shows the record's title, or 'MISSING INFO' when the record has none.
C13_EntriesFollowRecords ==
  view.preview # NotRendered =>
    LET records == searchResults.records
        entries == view.preview.results
    IN /\ Len(entries) = Len(records)
       /\ \A i \in DOMAIN records :
            /\ entries[i].key = i
            /\ (entries[i].img # <<>>) <=> HasValue(records[i].primaryimageurl)
            /\ entries[i].img # <<>> =>
                 entries[i].img = <<[src |-> records[i].primaryimageurl,
                                     alt |-> records[i].description]>>
            /\ entries[i].h3 = IF HasValue(records[i].title)
                                 THEN records[i].title
                                 ELSE MissingInfo

C13_Witness ==
  /\ view.preview # NotRendered
  /\ Len(searchResults.records) = 2
  /\ Absent(searchResults.records[1].title)
  /\ Absent(searchResults.records[1].primaryimageurl)
  /\ view.preview.results[1].h3 = MissingInfo
  /\ view.preview.results[1].img = <<>>
  /\ view.preview.results[2].h3 = Str(<<"V">>)
  /\ view.preview.results[2].img # <<>>

\* Position of the first occurrence of a step in an activation's log, 0 if
\* the step was never taken.
StepIndex(t, step) ==
  IF \E i \in DOMAIN history[t].log : history[t].log[i] = step
    THEN CHOOSE i \in DOMAIN history[t].log :
           /\ history[t].log[i] = step
           /\ \A j \in 1..(i - 1) : history[t].log[j] # step
    ELSE 0

StepCount(t, step) ==
  Cardinality({i \in DOMAIN history[t].log : history[t].log[i] = step})

\* C14 as stated: every activation, of a link and of a pagination button
\* alike, suppresses the default behaviour first and sets LoadingFlag after.
C14_DefaultSuppressedFirst ==
  \A t \in Activations :
    /\ history[t].prevented
    /\ StepIndex(t, "preventDefault") = 1
    /\ StepIndex(t, "isLoading:true") > 1
    /\ StepIndex(t, "fetch") > 1

\* C14 as amended: every activation of a link suppresses the default
\* behaviour first and only then sets LoadingFlag and starts its fetch; an
\* activation of a pagination button sets LoadingFlag and starts its fetch
\* without suppressing anything.
C14_LinkSuppressesDefaultFirst ==
  \A t \in Activations :
    /\ history[t].kind = "searchable" =>
         /\ history[t].prevented
         /\ StepIndex(t, "preventDefault") = 1
         /\ StepIndex(t, "isLoading:true") = 2
         /\ StepIndex(t, "fetch") = 3
    /\ history[t].kind = "page" =>
         /\ ~history[t].prevented
         /\ StepIndex(t, "preventDefault") = 0
         /\ StepIndex(t, "isLoading:true") = 1
         /\ StepIndex(t, "fetch") = 2

C14_Witness ==
  /\ Len(history) = 2
  /\ history[1].kind = "page"
  /\ history[2].kind = "searchable"
  /\ InFlight(1) /\ InFlight(2)

\* C15: the step that handles a click on a link or on a pagination button
\* is the step that writes LoadingFlag = true: after it the flag is true,
\* the new activation is awaiting its fetch, and nothing else happened in
\* between (no settlement, no timer callback, no selection, no result
\* written); within the step the write comes before the fetch call, so no
\* fetch is in flight for an activation that has not written true.
C15_TrueBeforeFetch ==
  \A t \in Activations :
    /\ StepIndex(t, "isLoading:true") > 0
    /\ StepIndex(t, "isLoading:true") < StepIndex(t, "fetch")
    /\ InFlight(t) => StepCount(t, "isLoading:true") = 1

C15_ActivationStep ==
  LET t == Len(history) + 1 IN
  Len(history') = t =>
    /\ isLoading'
    /\ lastFlagWriter' = t
    /\ t \in DOMAIN pending' /\ pending'[t].pc = "await"
    /\ \A u \in Activations :
         /\ history'[u].settled = history[u].settled
         /\ history'[u].log = history[u].log
    /\ DOMAIN pending' = DOMAIN pending \cup {t}
    /\ \A u \in DOMAIN pending : pending'[u] = pending[u]
    /\ UNCHANGED <<searchResults, featuredResult, timers, lastResolved>>

C15_TrueInSameStep == []C15_TrueBeforeFetch /\ [][C15_ActivationStep]_vars

C15_Witness ==
  /\ Len(history) = 2
  /\ Unfinished(1) /\ pending[1].pc = "timer"
  /\ InFlight(2)
  /\ lastFlagWriter = 2
  /\ isLoading

Settled(t) == history[t].settled # "pending"

\* C16: a link activation and a pagination activation whose fetches had the
\* same outcome have taken the same steps in the same order, and each of
\* them has written LoadingFlag = false in the very step that handled the
\* settlement of its fetch.
C16_SameSequence ==
  /\ \A t \in Activations : Settled(t) => FlagCleared(t)
  /\ \A t, u \in Activations :
       (/\ history[t].kind = "searchable"
        /\ history[u].kind = "page"
        /\ Settled(t)
        /\ history[t].settled = history[u].settled)
       => history[t].log = history[u].log

\* C17: every activation calls its fetch collaborator exactly once: a link
\* the term+value fetch with its field and its value, a pagination button
\* the URL fetch with one page URL; no later step of the activation calls a
\* fetch again, so an activation whose fetch rejected is never awaiting a
\* fetch afterwards and only a new click starts one.
C17_OneFetchState ==
  /\ \A t \in Activations :
       /\ StepCount(t, "fetch") = 1
       /\ Rejected(t) => ~InFlight(t)
  /\ \A t \in DOMAIN pending :
       /\ pending[t].kind = "searchable" =>
            /\ pending[t].fn = "fetchQueryResultsFromTermAndValue"
            /\ pending[t].args = <<pending[t].control.field, pending[t].text>>
       /\ pending[t].kind = "page" =>
            /\ pending[t].fn = "fetchQueryResultsFromURL"
            /\ Len(pending[t].args) = 1

C17_OneFetchStep ==
  /\ \A t \in Activations : StepCount(t, "fetch")' = StepCount(t, "fetch")
  /\ Len(history') \in {Len(history), Len(history) + 1}
  /\ \A t \in DOMAIN pending' : t \notin DOMAIN pending => t = Len(history) + 1

C17_FetchOnceNoRetry == []C17_OneFetchState /\ [][C17_OneFetchStep]_vars

C17_Witness ==
  /\ Len(history) = 2
  /\ history[1].kind = "searchable"
  /\ Rejected(1) /\ Finished(1)
  /\ history[2].kind = "page"
  /\ InFlight(2)

\* C18: QueryResultSet changes only in a step in which the fetch of some
\* activation resolves, and then it becomes, records and cursors together,
\* the value that fetch returned; so it is the value it started with until
\* a fetch has resolved and the value the latest resolved fetch returned
\* afterwards.  A selection, a rejected fetch and a LoadingFlag write leave
\* it as it is.
C18_ResultState ==
  /\ lastResolved.t # 0 =>
       /\ Resolved(lastResolved.t)
       /\ searchResults = lastResolved.results
       /\ searchResults \in ResultSets
  /\ lastResolved.t = 0 => \A t \in Activations : ~Resolved(t)

C18_ResultStep ==
  /\ searchResults' # searchResults =>
       \E t \in Activations :
         /\ history[t].settled = "pending"
         /\ history'[t].settled = "resolved"
         /\ lastResolved' = [t |-> t, results |-> searchResults']
  /\ (\A t \in Activations : history'[t].settled = "resolved" => Resolved(t)) =>
       /\ searchResults' = searchResults
       /\ lastResolved' = lastResolved

C18_ReplacedWholesale == []C18_ResultState /\ [][C18_ResultStep]_vars

C18_Witness ==
  /\ Len(history) = 2
  /\ Resolved(1) /\ Finished(1)
  /\ Rejected(2) /\ Finished(2)
  /\ Truthy(featuredResult)
  /\ searchResults = EmptyPage

FailedBefore(u) == \E t \in 1..(u - 1) : Rejected(t)

\* C19: a fetch failure takes nothing away from the view: the step that
\* handles a rejection leaves what Preview and Feature render as it was,
\* and, as long as the activation budget of the model is not used up, every
\* rendered link, every enabled pagination button and every rendered entry
\* can be clicked in a state that has a failure behind it; an activation
\* started after a failure whose fetch resolves writes true, the result set
\* and false like any other, leaving the flag false and the result set at
\* the returned value when it is the latest writer.
C19_AfterFailureState ==
  /\ ((\E t \in Activations : Rejected(t)) /\ Len(history) < MaxTasks) =>
       /\ \A link \in FeatureLinks(featuredResult) : ENABLED handleClick(link)
       /\ ~view.preview.previous.disabled => ENABLED previousClick
       /\ ~view.preview.next.disabled => ENABLED nextClick
       /\ \A index \in DOMAIN view.preview.results : ENABLED objectPreviewClick(index)
  /\ \A u \in Activations :
       (FailedBefore(u) /\ Resolved(u) /\ Finished(u)) =>
         /\ Writes(u) = <<"isLoading:true", "searchResults", "isLoading:false">>
         /\ lastFlagWriter = u => ~isLoading
         /\ lastResolved.t = u => searchResults = lastResolved.results

C19_FailureStep ==
  (\E t \in Activations : history[t].settled = "pending" /\ history'[t].settled = "rejected")
    => view' = view

C19_InteractiveAfterFailure == []C19_AfterFailureState /\ [][C19_FailureStep]_vars

C19_Witness ==
  /\ Len(history) = 2
  /\ history[1].kind = "page" /\ Rejected(1)
  /\ history[2].kind = "searchable" /\ Resolved(2)
  /\ ~history[2].overlapped
  /\ Finished(2)
  /\ ~isLoading
  /\ searchResults = lastResolved.results

\* Every record some result set of the catalogue lists.
ListedRecords ==
  UNION {{rs.records[i] : i \in DOMAIN rs.records} : rs \in ResultSets}

\* C20: SelectedRecord is written only by selecting a record: it is always
\* its initial null or a record that result sets list, a step that changes
\* it sets it to a record of the QueryResultSet shown at that moment and
\* touches nothing else, and no step of an activation (its start, the
\* settlement of its fetch, its timer callback) changes it.
C20_SelectionState == featuredResult = Null \/ featuredResult \in ListedRecords

C20_WriteStep ==
  /\ featuredResult' # featuredResult =>
       /\ \E index \in DOMAIN searchResults.records :
            featuredResult' = searchResults.records[index]
       /\ UNCHANGED <<searchResults, isLoading, pending, timers, history,
                      lastFlagWriter, lastResolved>>
  /\ (history' # history \/ timers' # timers \/ pending' # pending)
       => featuredResult' = featuredResult

C20_OnlySelectionWrites == []C20_SelectionState /\ [][C20_WriteStep]_vars

C20_Witness ==
  /\ featuredResult = Vase
  /\ searchResults = EmptyPage
  /\ Len(history) = 2
  /\ Resolved(1) /\ Rejected(2)
  /\ timers = <<>>

====
